---- MODULE Spec2Model ----
(***************************************************************************)
(* Experiment.run (src/flow/core/experiment.py) as a state machine.         *)
(*                                                                         *)
(* The driver is single threaded; every action below is one statement      *)
(* group of run(), and pc is the position of the driver in the method.      *)
(* The environment (env.reset, env.step, env.k.vehicle.*, env.terminate)    *)
(* and emission_to_csv are collaborators: what they return, and whether     *)
(* they raise, is drawn from small sets.  `calls` is the sequence of calls  *)
(* run() has issued to its collaborators, in program order.                 *)
(*                                                                         *)
(* Numbers: rewards and speeds are integers; a numpy float result is an     *)
(* exact fraction [num, den] with den > 0 in lowest terms, and nan is       *)
(* [num |-> 0, den |-> 0].  Flow rates are integers in units of 1e-5        *)
(* veh/hr, so that the guard `> 1e-5` of line 154 is `> Eps` with Eps = 1.  *)
(*                                                                         *)
(* Three specifications share the variables: Spec follows one run() line   *)
(* by line; ConcSpec interleaves the env calls of several Experiments;      *)
(* RoutesSpec and RoutesFairSpec follow                                     *)
(* NetFileGenerator._import_routes_from_net                                 *)
(* (src/flow/scenarios/netfile/gen.py).  Each leaves the variables of the   *)
(* others at their idle values.                                             *)
(***************************************************************************)
EXTENDS Integers, Sequences, FiniteSets, TLC

\* ---------------------------------------------------------------- bounds
MaxRuns == 2
MaxSteps == 2

\* ------------------------------------------------------- program constants
\* 1e-5 veh/hr, in units of 1e-5 veh/hr (line 154)
Eps == 1
\* the window of get_outflow_rate / get_inflow_rate, seconds (lines 149, 153)
Window == 500
\* decimals of np.around (lines 179, 180)
Decimals == 2

\* ------------------------------------------------------------- input sets
None == "None"

\* what env.step returns and the speeds the kernel caches after that step
StepOutcomes ==
    { [reward |-> 1,  done |-> FALSE, speeds |-> <<2, 4>>],
      [reward |-> 2,  done |-> FALSE, speeds |-> <<>>],
      [reward |-> -1, done |-> TRUE,  speeds |-> <<3>>] }

\* one vehicle per Window seconds, 3600 / 500 = 7.2 veh/hr
VehPerWindow == (3600 * 100000) \div Window

\* What get_outflow_rate and get_inflow_rate return for a run: no inflow at
\* all, two vehicles per window, and an inflow of exactly 1e-5 veh/hr, which
\* is positive and not above the guard of line 154.
FlowSamples ==
    { [outflow |-> VehPerWindow,     inflow |-> 0],
      [outflow |-> VehPerWindow,     inflow |-> 2 * VehPerWindow],
      [outflow |-> 2 * VehPerWindow, inflow |-> Eps] }

\* how the vehicle queries of line 130 end
QueryOutcomes == {"ok", "ids_raise", "speed_raise"}

\* how the flow queries of lines 149 and 153 end
FlowOutcomes == {"ok", "outflow_raise", "inflow_raise"}

\* ------------------------------------------------------------ arithmetic
Abs(n) == IF n < 0 THEN -n ELSE n

RECURSIVE GCD(_, _)
GCD(a, b) == IF b = 0 THEN a ELSE GCD(b, a % b)

NaN == [num |-> 0, den |-> 0]

IsNaN(f) == f.den = 0

\* the float n / d, d >= 0; a zero denominator gives nan (numpy, not Python)
Frac(n, d) ==
    IF d = 0 THEN NaN
    ELSE LET g == GCD(Abs(n), d) IN [num |-> n \div g, den |-> d \div g]

FromInt(n) == [num |-> n, den |-> 1]

FracAdd(f, g) ==
    IF IsNaN(f) \/ IsNaN(g) THEN NaN
    ELSE Frac(f.num * g.den + g.num * f.den, f.den * g.den)

FracDivInt(f, n) ==
    IF IsNaN(f) \/ n = 0 THEN NaN ELSE Frac(f.num, f.den * n)

RECURSIVE SumInt(_)
SumInt(s) == IF s = <<>> THEN 0 ELSE Head(s) + SumInt(Tail(s))

RECURSIVE SumFrac(_)
SumFrac(s) == IF s = <<>> THEN FromInt(0) ELSE FracAdd(Head(s), SumFrac(Tail(s)))

\* np.mean of a list of Python numbers; nan (and a warning) for an empty list
Mean(s) == Frac(SumInt(s), Len(s))

\* mutant: sum(s) / len(s), which raises ZeroDivisionError for an empty list
MeanFails_SumOverLen(s) == Len(s) = 0

\* np.mean never raises for a list of numbers, empty or not
MeanFails(s) == FALSE

\* np.mean of an array of floats
MeanFrac(s) == FracDivInt(SumFrac(s), Len(s))

RECURSIVE Pow10(_)
Pow10(k) == IF k = 0 THEN 1 ELSE 10 * Pow10(k - 1)

\* np.around(x, decimals): x * 10^k rounded half to even, over 10^k
Around(f, k) ==
    IF IsNaN(f) THEN NaN
    ELSE LET s == f.num * Pow10(k)
             q == s \div f.den
             r == s % f.den
             n == IF 2 * r < f.den THEN q
                  ELSE IF 2 * r > f.den THEN q + 1
                  ELSE IF q % 2 = 0 THEN q ELSE q + 1
         IN Frac(n, Pow10(k))

\* np.zeros(n)
Zeros(n) == [k \in 1..n |-> FromInt(0)]

\* ------------------------------------------------------------- dictionary
EmptyDict == [k \in {} |-> 0]

SetItem(d, key, v) ==
    [k \in (DOMAIN d) \cup {key} |-> IF k = key THEN v ELSE d[k]]

\* ------------------------------------------------------------------ state
VARIABLES
    num_runs, num_steps, convert_to_csv, emission_path,
    pc, error,
    i, j, ret, ret_list, vel, state, reward, done,
    rets, mean_rets, ret_lists, vels, mean_vels, outflows, inflows,
    throughput, info_dict,
    kernel_speeds, action_state, calls, xml_exists, csv_exists, delivered,
    \* several Experiments side by side, each on the env it was built with
    exps, in_flight, overlap,
    \* NetFileGenerator._import_routes_from_net
    file, veh, rt, route_edges, routes_data, idx, rpc

\* The arguments of run() that decide its control flow from the first line on.
\* output_to_terminal is read once, at line 166, and is drawn there.
args == <<num_runs, num_steps, convert_to_csv, emission_path>>
locals == <<i, j, ret, ret_list, vel, state, reward, done>>
lists == <<rets, mean_rets, ret_lists, vels, mean_vels, outflows, inflows>>
files == <<xml_exists, csv_exists>>

\* the state of one run() followed from its first line to its exit
runvars == <<args, pc, error, locals, lists, throughput, info_dict,
             kernel_speeds, action_state, calls, files, delivered>>

concvars == <<exps, in_flight, overlap>>
routevars == <<file, veh, rt, route_edges, routes_data, idx, rpc>>

\* what a single run() leaves alone
others == <<concvars, routevars>>

vars == <<runvars, concvars, routevars>>

\* mutant: throughput is initialised to an empty list before the loop
Unbound_EmptyList == [bound |-> TRUE, value |-> <<>>]

\* a local name that is not bound yet
Unbound == [bound |-> FALSE, value |-> <<>>]
Bound(v) == [bound |-> TRUE, value |-> v]

\* no Experiment of the concurrent view exists
ConcIdle ==
    /\ exps = <<>>
    /\ in_flight = <<>>
    /\ overlap = FALSE

\* no route file is being imported
RoutesIdle ==
    /\ file = <<>>
    /\ veh = 0
    /\ rt = 0
    /\ route_edges = <<>>
    /\ routes_data = [k \in {} |-> <<>>]
    /\ idx = 0
    /\ rpc = "idle"

Init ==
    /\ ConcIdle
    /\ RoutesIdle
    /\ num_runs \in 0..MaxRuns
    /\ num_steps \in 0..MaxSteps
    /\ convert_to_csv \in BOOLEAN
    /\ emission_path \in {None, "data"}
    /\ pc = "start"
    /\ error = None
    /\ i = -1
    /\ j = -1
    /\ ret = 0
    /\ ret_list = <<>>
    /\ vel = <<>>
    /\ state = 0
    /\ reward = 0
    /\ done = FALSE
    /\ rets = <<>>
    /\ mean_rets = <<>>
    /\ ret_lists = <<>>
    /\ vels = <<>>
    /\ mean_vels = <<>>
    /\ outflows = <<>>
    /\ inflows = <<>>
    /\ throughput = Unbound
    /\ info_dict = EmptyDict
    /\ kernel_speeds = <<>>
    /\ action_state = 0
    /\ calls = <<>>
    /\ xml_exists = FALSE
    /\ csv_exists = FALSE
    /\ delivered = EmptyDict

\* an exception leaves run(): nothing is returned to the caller
Raise(e) ==
    /\ pc' = "raised"
    /\ error' = e

\* ------------------------------------------------------------ lines 88-113
\* mutant: the check of line 91 is missing
ConfigInvalid_Never(convert, path) == FALSE

ConfigInvalid(convert, path) == convert /\ path = None

CheckConfig ==
    /\ pc = "start"
    /\ IF ConfigInvalid(convert_to_csv, emission_path)
       THEN /\ Raise("ValueError")
            /\ UNCHANGED <<lists, info_dict>>
       ELSE /\ pc' = "for_i"
            /\ info_dict' = EmptyDict
            /\ rets' = <<>>
            /\ mean_rets' = <<>>
            /\ ret_lists' = <<>>
            /\ vels' = <<>>
            /\ mean_vels' = <<>>
            /\ outflows' = <<>>
            /\ inflows' = <<>>
            /\ UNCHANGED error
    /\ UNCHANGED <<others, args, locals, throughput, kernel_speeds, action_state,
                   calls, files, delivered>>

\* ----------------------------------------------------------- lines 116-121
\* the header of `for i in range(num_runs)` with a run left, then the start
\* of the run up to env.reset()
\* mutant: line 119 is missing; ret keeps the return of the run before
RunBegin_KeepsRet ==
    /\ pc = "for_i"
    /\ i + 1 < num_runs
    /\ i' = i + 1
    /\ vel' = Zeros(num_steps)
    /\ ret' = ret
    /\ ret_list' = <<>>
    /\ calls' = Append(calls, "reset")
    /\ \E raises \in BOOLEAN :
          IF raises
          THEN /\ Raise("EnvError")
               /\ UNCHANGED <<state, j>>
          ELSE /\ state' = Len(calls')
               /\ j' = -1
               /\ pc' = "for_j"
               /\ UNCHANGED error
    /\ UNCHANGED <<others, args, reward, done, lists, throughput, info_dict,
                   kernel_speeds, action_state, files, delivered>>

RunBegin ==
    /\ pc = "for_i"
    /\ i + 1 < num_runs
    /\ i' = i + 1
    /\ vel' = Zeros(num_steps)
    /\ ret' = 0
    /\ ret_list' = <<>>
    /\ calls' = Append(calls, "reset")
    /\ \E raises \in BOOLEAN :
          IF raises
          THEN /\ Raise("EnvError")
               /\ UNCHANGED <<state, j>>
          ELSE /\ state' = Len(calls')
               /\ j' = -1
               /\ pc' = "for_j"
               /\ UNCHANGED error
    /\ UNCHANGED <<others, args, reward, done, lists, throughput, info_dict,
                   kernel_speeds, action_state, files, delivered>>

\* the header of `for i in range(num_runs)` with no run left
RunsExhausted ==
    /\ pc = "for_i"
    /\ ~(i + 1 < num_runs)
    /\ pc' = "aggregate"
    /\ UNCHANGED <<others, args, error, locals, lists, throughput, info_dict,
                   kernel_speeds, action_state, calls, files, delivered>>

\* ----------------------------------------------------------- lines 124-127
\* the header of `for j in range(num_steps)` with a step left, then
\* env.step(rl_actions(state))
\* mutant: the state returned by env.step is dropped, so every action of
\* the run is computed from the state env.reset returned
EnvStep_StaleState ==
    /\ pc = "for_j"
    /\ j + 1 < num_steps
    /\ j' = j + 1
    /\ action_state' = state
    /\ calls' = Append(calls, "step")
    /\ \/ /\ Raise("EnvError")
          /\ UNCHANGED <<state, reward, done, kernel_speeds>>
       \/ \E o \in StepOutcomes :
             /\ state' = state
             /\ reward' = o.reward
             /\ done' = o.done
             /\ kernel_speeds' = o.speeds
             /\ pc' = "sample"
             /\ UNCHANGED error
    /\ UNCHANGED <<others, args, i, ret, ret_list, vel, lists, throughput, info_dict,
                   files, delivered>>

EnvStep ==
    /\ pc = "for_j"
    /\ j + 1 < num_steps
    /\ j' = j + 1
    /\ action_state' = state
    /\ calls' = Append(calls, "step")
    /\ \/ /\ Raise("EnvError")
          /\ UNCHANGED <<state, reward, done, kernel_speeds>>
       \/ \E o \in StepOutcomes :
             /\ state' = Len(calls')
             /\ reward' = o.reward
             /\ done' = o.done
             /\ kernel_speeds' = o.speeds
             /\ pc' = "sample"
             /\ UNCHANGED error
    /\ UNCHANGED <<others, args, i, ret, ret_list, vel, lists, throughput, info_dict,
                   files, delivered>>

\* the header of `for j in range(num_steps)` with no step left
StepsExhausted ==
    /\ pc = "for_j"
    /\ ~(j + 1 < num_steps)
    /\ pc' = "run_end"
    /\ UNCHANGED <<others, args, error, locals, lists, throughput, info_dict,
                   kernel_speeds, action_state, calls, files, delivered>>

\* ----------------------------------------------------------- lines 129-137
\* `if done: break` (line 136): where the driver goes after a step
\* mutant: the break of line 137 is missing
AfterStep_NoBreak(d) == "for_j"

\* mutant: a run that ends through done skips the appends of lines 139-158
AfterStep_SkipAppend(d) == IF d THEN "for_i" ELSE "for_j"

AfterStep(d) == IF d THEN "run_end" ELSE "for_j"

SampleSpeed ==
    /\ pc = "sample"
    /\ \E q \in QueryOutcomes :
          IF q = "ids_raise"
          THEN /\ calls' = Append(calls, "get_ids")
               /\ Raise("EnvError")
               /\ UNCHANGED <<vel, ret, ret_list>>
          ELSE IF q = "speed_raise"
          THEN /\ calls' = calls \o <<"get_ids", "get_speed">>
               /\ Raise("EnvError")
               /\ UNCHANGED <<vel, ret, ret_list>>
          ELSE IF MeanFails(kernel_speeds)
          THEN /\ calls' = calls \o <<"get_ids", "get_speed">>
               /\ Raise("ZeroDivisionError")
               /\ UNCHANGED <<vel, ret, ret_list>>
          ELSE /\ calls' = calls \o <<"get_ids", "get_speed">>
               /\ vel' = [vel EXCEPT ![j + 1] = Mean(kernel_speeds)]
               /\ ret' = ret + reward
               /\ ret_list' = Append(ret_list, reward)
               /\ pc' = AfterStep(done)
               /\ UNCHANGED error
    /\ UNCHANGED <<others, args, i, j, state, reward, done, lists, throughput,
                   info_dict, kernel_speeds, action_state, files, delivered>>

\* ----------------------------------------------------------- lines 139-158
\* mutant: only the inflow of the run that just ended is tested
AllAbove_LastOnly(ins) == ins[Len(ins)] > Eps

\* np.all(np.array(inflows) > 1e-5)
AllAbove(ins) == \A k \in 1..Len(ins) : ins[k] > Eps

\* [x / y for x, y in zip(outflows, inflows)]: Python's x / y raises for y = 0
DivByZero(outs, ins) ==
    \E k \in 1..Len(ins) : k <= Len(outs) /\ ins[k] = 0

Ratios(outs, ins) ==
    [k \in 1..(IF Len(outs) < Len(ins) THEN Len(outs) ELSE Len(ins)) |->
        Frac(outs[k], ins[k])]

\* [0] * len(inflows)
Repeat0(n) == [k \in 1..n |-> FromInt(0)]

RunEnd ==
    /\ pc = "run_end"
    /\ rets' = Append(rets, ret)
    /\ vels' = Append(vels, vel)
    /\ mean_rets' = Append(mean_rets, Mean(ret_list))
    /\ ret_lists' = Append(ret_lists, ret_list)
    /\ mean_vels' = Append(mean_vels, MeanFrac(vel))
    /\ \E q \in FlowOutcomes :
          IF q = "outflow_raise"
          THEN /\ calls' = Append(calls, "get_outflow_rate")
               /\ Raise("EnvError")
               /\ UNCHANGED <<outflows, inflows, throughput>>
          ELSE IF q = "inflow_raise"
          THEN /\ calls' = calls \o <<"get_outflow_rate", "get_inflow_rate">>
               /\ \E f \in FlowSamples : outflows' = Append(outflows, f.outflow)
               /\ Raise("EnvError")
               /\ UNCHANGED <<inflows, throughput>>
          ELSE /\ calls' = calls \o <<"get_outflow_rate", "get_inflow_rate">>
               /\ \E f \in FlowSamples :
                     /\ outflows' = Append(outflows, f.outflow)
                     /\ inflows' = Append(inflows, f.inflow)
               /\ IF AllAbove(inflows')
                  THEN IF DivByZero(outflows', inflows')
                       THEN /\ Raise("ZeroDivisionError")
                            /\ UNCHANGED throughput
                       ELSE /\ throughput' = Bound(Ratios(outflows', inflows'))
                            /\ pc' = "for_i"
                            /\ UNCHANGED error
                  ELSE /\ throughput' = Bound(Repeat0(Len(inflows')))
                       /\ pc' = "for_i"
                       /\ UNCHANGED error
    /\ UNCHANGED <<others, args, locals, info_dict, kernel_speeds, action_state,
                   files, delivered>>

\* ----------------------------------------------------------- lines 160-180
\* lines 160-164
RunMetrics(d) ==
    SetItem(SetItem(SetItem(SetItem(SetItem(d,
        "returns", rets),
        "velocities", vels),
        "mean_returns", mean_rets),
        "per_step_returns", ret_lists),
        "mean_outflows", Mean(outflows))

\* the prints of lines 167-176 change no state; they read i and throughput
Aggregate ==
    /\ pc = "aggregate"
    /\ \E output_to_terminal \in BOOLEAN :
       IF output_to_terminal /\ i = -1
       THEN \* line 167 reads i, which no iteration has bound
            /\ info_dict' = RunMetrics(info_dict)
            /\ Raise("UnboundLocalError")
       ELSE IF ~throughput.bound
       THEN \* line 180 reads throughput, which no run has assigned
            /\ info_dict' = SetItem(RunMetrics(info_dict), "avg_spd",
                                    Around(MeanFrac(mean_vels), Decimals))
            /\ Raise("UnboundLocalError")
       ELSE /\ info_dict' =
                  SetItem(SetItem(RunMetrics(info_dict),
                      "avg_spd", Around(MeanFrac(mean_vels), Decimals)),
                      "avg_tpt", Around(MeanFrac(throughput.value), Decimals))
            /\ pc' = "terminate"
            /\ UNCHANGED error
    /\ UNCHANGED <<others, args, locals, lists, throughput, kernel_speeds,
                   action_state, calls, files, delivered>>

\* ----------------------------------------------------------- lines 183-185
\* mutant: the test of line 185 is missing
AfterTerminate_Always(convert) == "convert"

\* `if convert_to_csv` (line 185)
AfterTerminate(convert) == IF convert THEN "convert" ELSE "return"

\* mutant: line 183 is missing; the driver goes on without the teardown
Terminate_Missing ==
    /\ pc = "terminate"
    /\ pc' = AfterTerminate(convert_to_csv)
    /\ xml_exists' \in (IF emission_path = None THEN {FALSE} ELSE BOOLEAN)
    /\ UNCHANGED <<others, args, error, locals, lists, throughput, info_dict,
                   kernel_speeds, action_state, calls, csv_exists, delivered>>

\* env.terminate() closes the backend, which is when the emission log, if one
\* was configured, is complete on disk (or was never written)
Terminate ==
    /\ pc = "terminate"
    /\ calls' = Append(calls, "terminate")
    /\ IF emission_path = None
       THEN xml_exists' = FALSE
       ELSE xml_exists' \in BOOLEAN
    /\ pc' = AfterTerminate(convert_to_csv)
    /\ UNCHANGED <<others, args, error, locals, lists, throughput, info_dict,
                   kernel_speeds, action_state, csv_exists, delivered>>

\* ----------------------------------------------------------- lines 186-195
\* mutant: the XML file is removed whether or not the conversion succeeded
Convert_RemovesOnFailure ==
    /\ pc = "convert"
    /\ IF ~xml_exists
       THEN /\ calls' = Append(calls, "emission_to_csv")
            /\ Raise("ConversionError")
            /\ UNCHANGED <<csv_exists, xml_exists>>
       ELSE \E malformed \in BOOLEAN :
               IF malformed
               THEN /\ calls' = calls \o <<"emission_to_csv", "remove">>
                    /\ xml_exists' = FALSE
                    /\ Raise("ConversionError")
                    /\ UNCHANGED csv_exists
               ELSE /\ calls' = Append(calls, "emission_to_csv")
                    /\ csv_exists' = TRUE
                    /\ pc' = "remove"
                    /\ UNCHANGED <<error, xml_exists>>
    /\ UNCHANGED <<others, args, locals, lists, throughput, info_dict,
                   kernel_speeds, action_state, delivered>>

Convert ==
    /\ pc = "convert"
    /\ calls' = Append(calls, "emission_to_csv")
    /\ IF ~xml_exists
       THEN /\ Raise("ConversionError")
            /\ UNCHANGED csv_exists
       ELSE \E malformed \in BOOLEAN :
               IF malformed
               THEN /\ Raise("ConversionError")
                    /\ UNCHANGED csv_exists
               ELSE /\ csv_exists' = TRUE
                    /\ pc' = "remove"
                    /\ UNCHANGED error
    /\ UNCHANGED <<others, args, locals, lists, throughput, info_dict,
                   kernel_speeds, action_state, xml_exists, delivered>>

\* ---------------------------------------------------------------- line 198
Remove ==
    /\ pc = "remove"
    /\ calls' = Append(calls, "remove")
    /\ IF xml_exists
       THEN /\ xml_exists' = FALSE
            /\ pc' = "return"
            /\ UNCHANGED error
       ELSE /\ Raise("FileNotFoundError")
            /\ UNCHANGED xml_exists
    /\ UNCHANGED <<others, args, locals, lists, throughput, info_dict,
                   kernel_speeds, action_state, csv_exists, delivered>>

\* ---------------------------------------------------------------- line 200
\* mutant: the teardown is repeated on the way out
Return_TerminatesAgain ==
    /\ pc = "return"
    /\ delivered' = info_dict
    /\ calls' = Append(calls, "terminate")
    /\ pc' = "returned"
    /\ UNCHANGED <<others, args, error, locals, lists, throughput, info_dict,
                   kernel_speeds, action_state, files>>

Return ==
    /\ pc = "return"
    /\ delivered' = info_dict
    /\ pc' = "returned"
    /\ UNCHANGED <<others, args, error, locals, lists, throughput, info_dict,
                   kernel_speeds, action_state, calls, files>>

Next ==
    \/ CheckConfig
    \/ RunBegin
    \/ RunsExhausted
    \/ EnvStep
    \/ StepsExhausted
    \/ SampleSpeed
    \/ RunEnd
    \/ Aggregate
    \/ Terminate
    \/ Convert
    \/ Remove
    \/ Return

Spec == Init /\ [][Next]_vars

\* no run() is being followed line by line
RunIdle ==
    /\ num_runs = 0
    /\ num_steps = 0
    /\ convert_to_csv = FALSE
    /\ emission_path = None
    /\ pc = "idle"
    /\ error = None
    /\ i = -1
    /\ j = -1
    /\ ret = 0
    /\ ret_list = <<>>
    /\ vel = <<>>
    /\ state = 0
    /\ reward = 0
    /\ done = FALSE
    /\ rets = <<>>
    /\ mean_rets = <<>>
    /\ ret_lists = <<>>
    /\ vels = <<>>
    /\ mean_vels = <<>>
    /\ outflows = <<>>
    /\ inflows = <<>>
    /\ throughput = Unbound
    /\ info_dict = EmptyDict
    /\ kernel_speeds = <<>>
    /\ action_state = 0
    /\ calls = <<>>
    /\ xml_exists = FALSE
    /\ csv_exists = FALSE
    /\ delivered = EmptyDict

\* ================================================= several Experiments
\* Experiments running side by side, one thread each, every one on the env
\* it was constructed with (line 60).  Of run() only the calls to the env
\* are kept; env.step is split into its call and its return, and
\* in_flight[h] counts the steps issued on env h that have not returned.
\* overlap records that some call was issued on an env with a step in flight.
Exps == {1, 2}

\* self.env of Experiment e (line 60): every Experiment has its own
EnvOf(e) == e

Envs == {EnvOf(e) : e \in Exps}

ConcInit ==
    /\ RunIdle
    /\ RoutesIdle
    /\ exps \in [Exps -> [pc : {"for_i"}, i : {-1}, j : {-1}, done : {FALSE},
                          runs : 1..MaxRuns, steps : 1..MaxSteps]]
    /\ in_flight = [h \in Envs |-> 0]
    /\ overlap = FALSE

\* a call is issued on the env of e
IssueOn(e) == overlap' = (overlap \/ in_flight[EnvOf(e)] > 0)

\* lines 116-121: env.reset()
CReset(e) ==
    /\ exps[e].pc = "for_i"
    /\ exps[e].i + 1 < exps[e].runs
    /\ IssueOn(e)
    /\ \E raises \in BOOLEAN :
          exps' = [exps EXCEPT ![e].i = @ + 1, ![e].j = -1,
                               ![e].pc = IF raises THEN "raised" ELSE "for_j"]
    /\ UNCHANGED <<in_flight, runvars, routevars>>

\* line 116 with no run left
CRunsExhausted(e) ==
    /\ exps[e].pc = "for_i"
    /\ ~(exps[e].i + 1 < exps[e].runs)
    /\ exps' = [exps EXCEPT ![e].pc = "terminate"]
    /\ UNCHANGED <<in_flight, overlap, runvars, routevars>>

\* mutant: env.step does not block; the driver goes on while the step runs
CStepCall_NoWait(e) ==
    /\ exps[e].pc = "for_j"
    /\ exps[e].j + 1 < exps[e].steps
    /\ IssueOn(e)
    /\ in_flight' = [in_flight EXCEPT ![EnvOf(e)] = @ + 1]
    /\ exps' = [exps EXCEPT ![e].j = @ + 1, ![e].pc = "sample"]
    /\ UNCHANGED <<runvars, routevars>>

\* lines 124-127: env.step(...) is called
CStepCall(e) ==
    /\ exps[e].pc = "for_j"
    /\ exps[e].j + 1 < exps[e].steps
    /\ IssueOn(e)
    /\ in_flight' = [in_flight EXCEPT ![EnvOf(e)] = @ + 1]
    /\ exps' = [exps EXCEPT ![e].j = @ + 1, ![e].pc = "in_step"]
    /\ UNCHANGED <<runvars, routevars>>

\* line 127: env.step(...) returns, or raises
CStepReturn(e) ==
    /\ exps[e].pc = "in_step"
    /\ in_flight' = [in_flight EXCEPT ![EnvOf(e)] = @ - 1]
    /\ \/ exps' = [exps EXCEPT ![e].pc = "raised"]
       \/ \E d \in BOOLEAN :
             exps' = [exps EXCEPT ![e].done = d, ![e].pc = "sample"]
    /\ UNCHANGED <<overlap, runvars, routevars>>

\* line 124 with no step left
CStepsExhausted(e) ==
    /\ exps[e].pc = "for_j"
    /\ ~(exps[e].j + 1 < exps[e].steps)
    /\ exps' = [exps EXCEPT ![e].pc = "run_end"]
    /\ UNCHANGED <<in_flight, overlap, runvars, routevars>>

\* lines 130-137: the vehicle queries, then `if done: break`
CSample(e) ==
    /\ exps[e].pc = "sample"
    /\ IssueOn(e)
    /\ exps' = [exps EXCEPT ![e].pc = AfterStep(exps[e].done)]
    /\ UNCHANGED <<in_flight, runvars, routevars>>

\* lines 149-153: the flow queries
CRunEnd(e) ==
    /\ exps[e].pc = "run_end"
    /\ IssueOn(e)
    /\ exps' = [exps EXCEPT ![e].pc = "for_i"]
    /\ UNCHANGED <<in_flight, runvars, routevars>>

\* line 183: env.terminate()
CTerminate(e) ==
    /\ exps[e].pc = "terminate"
    /\ IssueOn(e)
    /\ exps' = [exps EXCEPT ![e].pc = "terminated"]
    /\ UNCHANGED <<in_flight, runvars, routevars>>

ConcNext ==
    \E e \in Exps :
       \/ CReset(e)
       \/ CRunsExhausted(e)
       \/ CStepCall(e)
       \/ CStepReturn(e)
       \/ CStepsExhausted(e)
       \/ CSample(e)
       \/ CRunEnd(e)
       \/ CTerminate(e)

ConcSpec == ConcInit /\ [][ConcNext]_vars

\* ============================ NetFileGenerator._import_routes_from_net
\* (src/flow/scenarios/netfile/gen.py, lines 48-90).  A string is a sequence
\* of one-character strings; the file is the sequence of its <vehicle>
\* elements in document order, each the sequence of the `edges` attributes of
\* its <route> children.
MaxVehicles == 3

\* the `edges` attributes that occur: three routes that start on edge a, one
\* of them a alone, and one that starts on edge b
EdgeAttrs ==
    { <<"a">>, <<"a", " ", "b">>, <<"a", " ", "c">>, <<"b", " ", "a">> }

\* a vehicle has one route, or none, or two
Vehicles ==
    {<<>>} \cup {<<x>> : x \in EdgeAttrs}
           \cup {<<<<"a", " ", "b">>, <<"a", " ", "c">>>>}

RECURSIVE SeqsUpTo(_, _)
SeqsUpTo(S, n) ==
    IF n = 0 THEN {<<>>}
    ELSE LET shorter == SeqsUpTo(S, n - 1)
         IN shorter \cup {Append(q, x) : q \in shorter, x \in S}

\* str.split(' '): the pieces between single spaces, empty pieces included
RECURSIVE Split(_)
Split(str) ==
    IF str = <<>> THEN << <<>> >>
    ELSE LET rest == Split(Tail(str))
         IN IF Head(str) = " "
            THEN << <<>> >> \o rest
            ELSE << <<Head(str)>> \o Head(rest) >> \o Tail(rest)

RoutesInit ==
    /\ RunIdle
    /\ ConcIdle
    /\ file \in SeqsUpTo(Vehicles, MaxVehicles)
    /\ veh = 0
    /\ rt = 0
    /\ route_edges = <<>>
    /\ routes_data = [k \in {} |-> <<>>]
    /\ idx = 0
    /\ rpc = "vehicles"

\* line 81
key == route_edges[1]

\* line 78, with a vehicle left
VehicleBegin ==
    /\ rpc = "vehicles"
    /\ veh < Len(file)
    /\ veh' = veh + 1
    /\ rt' = 0
    /\ rpc' = "routes"
    /\ UNCHANGED <<file, route_edges, routes_data, idx, runvars, concvars>>

\* line 78 with no vehicle left, and line 90
VehiclesExhausted ==
    /\ rpc = "vehicles"
    /\ ~(veh < Len(file))
    /\ rpc' = "done"
    /\ UNCHANGED <<file, veh, rt, route_edges, routes_data, idx, runvars,
                   concvars>>

\* lines 79-82 and 88-89, with a route left
RouteBegin ==
    /\ rpc = "routes"
    /\ rt < Len(file[veh])
    /\ rt' = rt + 1
    /\ route_edges' = Split(file[veh][rt + 1])
    /\ IF route_edges'[1] \in DOMAIN routes_data
       THEN /\ idx' = 0
            /\ rpc' = "scan"
            /\ UNCHANGED routes_data
       ELSE /\ routes_data' = SetItem(routes_data, route_edges'[1],
                                      <<route_edges'>>)
            /\ UNCHANGED <<idx, rpc>>
    /\ UNCHANGED <<file, veh, runvars, concvars>>

\* line 79 with no route left
RoutesExhausted ==
    /\ rpc = "routes"
    /\ ~(rt < Len(file[veh]))
    /\ rpc' = "vehicles"
    /\ UNCHANGED <<file, veh, rt, route_edges, routes_data, idx, runvars,
                   concvars>>

\* mutant: the branches of line 84 are exchanged
ScanIter_AppendsEqual ==
    /\ rpc = "scan"
    /\ idx < Len(routes_data[key])
    /\ idx' = idx + 1
    /\ IF routes_data[key][idx + 1] # route_edges
       THEN UNCHANGED routes_data
       ELSE routes_data' =
               [routes_data EXCEPT ![key] = Append(@, route_edges)]
    /\ UNCHANGED <<file, veh, rt, route_edges, rpc, runvars, concvars>>

\* lines 83-87: one iteration of `for routes in routes_data[key]`; the list
\* iterator reads position idx of the list as it is now
ScanIter ==
    /\ rpc = "scan"
    /\ idx < Len(routes_data[key])
    /\ idx' = idx + 1
    /\ IF routes_data[key][idx + 1] = route_edges
       THEN UNCHANGED routes_data
       ELSE routes_data' =
               [routes_data EXCEPT ![key] = Append(@, route_edges)]
    /\ UNCHANGED <<file, veh, rt, route_edges, rpc, runvars, concvars>>

\* line 83 with the iterator at the end of the list
ScanExhausted ==
    /\ rpc = "scan"
    /\ ~(idx < Len(routes_data[key]))
    /\ rpc' = "routes"
    /\ UNCHANGED <<file, veh, rt, route_edges, routes_data, idx, runvars,
                   concvars>>

RoutesNext ==
    \/ VehicleBegin
    \/ VehiclesExhausted
    \/ RouteBegin
    \/ RoutesExhausted
    \/ ScanIter
    \/ ScanExhausted

RoutesSpec == RoutesInit /\ [][RoutesNext]_vars

\* the interpreter executes the function to its end
RoutesFairSpec == RoutesSpec /\ WF_vars(RoutesNext)

\* ====================================================== the calls of run()
Count(s, x) == Cardinality({k \in 1..Len(s) : s[k] = x})

EnvOps == {"reset", "step", "get_ids", "get_speed",
           "get_outflow_rate", "get_inflow_rate"}

FileOps == {"emission_to_csv", "remove"}

\* the positions in s of the calls x
Positions(s, x) == {k \in 1..Len(s) : s[k] = x}

\* the number of steps issued since the latest reset
RECURSIVE StepsSinceReset(_)
StepsSinceReset(s) ==
    IF s = <<>> \/ s[Len(s)] = "reset" THEN 0
    ELSE (IF s[Len(s)] = "step" THEN 1 ELSE 0)
         + StepsSinceReset(SubSeq(s, 1, Len(s) - 1))

\* the call this transition issues first, if it issues one
Issues(x) == Len(calls') > Len(calls) /\ calls'[Len(calls) + 1] = x

\* ---------------------------------------------------------------------- C1
\* C1: with convert_to_csv set and emission_path None, run() goes from its
\* start straight to the configuration error: it issues no call to the
\* environment (reset, step, vehicle query, terminate), touches no file and
\* collects nothing, whatever num_runs and num_steps are.
C1_FailFast ==
    (convert_to_csv /\ emission_path = None) =>
        /\ pc \in {"start", "raised"}
        /\ pc = "raised" => error = "ValueError"
        /\ calls = <<>>
        /\ ~xml_exists /\ ~csv_exists
        /\ rets = <<>> /\ delivered = EmptyDict

C1_Witness ==
    /\ pc = "raised" /\ error = "ValueError"
    /\ num_runs = MaxRuns /\ num_steps = MaxSteps

\* ---------------------------------------------------------------------- C2
\* C2: terminate() is called at most once; when it is called every run has
\* been reset (it never comes between two runs) and only file operations
\* follow it; an execution with num_runs >= 1 that passed the configuration
\* check and in which no environment call raised has called it exactly once.
C2_TerminateOnceAtEnd ==
    /\ Count(calls, "terminate") <= 1
    /\ \A t \in Positions(calls, "terminate") :
          /\ \A k \in (t + 1)..Len(calls) : calls[k] \in FileOps
          /\ Count(SubSeq(calls, 1, t), "reset") = num_runs
          /\ num_steps >= 1 => calls[t - 1] = "get_inflow_rate"
    /\ (num_runs >= 1 /\ pc \in {"return", "returned", "convert", "remove"})
          => Count(calls, "terminate") = 1
    /\ (num_runs >= 1 /\ pc = "raised" /\ error \notin {"EnvError", "ValueError"})
          => Count(calls, "terminate") = 1

C2_Witness ==
    /\ pc = "returned" /\ num_runs = 2 /\ num_steps = 2
    /\ Count(calls, "step") = 4
    /\ Count(calls, "terminate") = 1

\* ---------------------------------------------------------------------- C3
\* C3: whenever a call to the environment raises inside run(), terminate()
\* has been invoked by the time run() exits.
C3_TeardownOnEveryExit ==
    (pc = "raised" /\ error = "EnvError") => Count(calls, "terminate") >= 1

\* ---------------------------------------------------------------------- C4
\* C4: emission_to_csv and the removal of the XML file come only after
\* terminate(), with no reset, step or query between terminate() and them.
C4_ConvertAfterTerminate ==
    /\ \A k \in 1..Len(calls) :
          calls[k] \in FileOps =>
             \E t \in 1..(k - 1) :
                /\ calls[t] = "terminate"
                /\ \A m \in (t + 1)..(k - 1) : calls[m] \notin EnvOps
    /\ csv_exists => Count(calls, "terminate") >= 1

C4_Witness ==
    /\ pc = "returned" /\ csv_exists /\ ~xml_exists
    /\ Count(calls, "remove") = 1
    /\ Count(calls, "step") >= 2

\* ---------------------------------------------------------------------- C5
\* C5: a step is issued only inside a run (after its reset), never beyond
\* num_steps steps in the run and never after a step of the run reported
\* done; a run is left (for the next reset, or for terminate) only after a
\* step reported done or num_steps steps were made, hence after at least one
\* step when num_steps >= 1; each run has exactly one reset.
C5_StepIssued ==
    Issues("step") =>
        /\ Count(calls, "reset") = i + 1
        /\ StepsSinceReset(calls) < num_steps
        /\ StepsSinceReset(calls) > 0 => ~done

C5_RunLeft ==
    (Issues("reset") /\ calls # <<>>) \/ Issues("terminate") =>
        /\ Len(rets) = Count(calls, "reset")
        /\ StepsSinceReset(calls) <= num_steps
        /\ num_steps >= 1 => StepsSinceReset(calls) >= 1
        /\ StepsSinceReset(calls) < num_steps => done

C5_RunShape ==
    /\ [](Count(calls, "reset") = i + 1)
    /\ [][C5_StepIssued /\ C5_RunLeft]_vars

C5_Witness ==
    /\ pc = "returned" /\ num_runs = 2 /\ num_steps = 2
    /\ Len(ret_lists[1]) = 1
    /\ Len(ret_lists[2]) = 2

\* ---------------------------------------------------------------------- C6
\* C6: when run() returns for num_runs >= 1 and num_steps >= 1, the returns
\* and mean_returns it delivers have exactly num_runs entries, entry k being
\* the one of run k, whichever runs ended early.
C6_OneEntryPerRun ==
    (pc = "returned" /\ num_runs >= 1 /\ num_steps >= 1) =>
        /\ Len(delivered["returns"]) = num_runs
        /\ Len(delivered["mean_returns"]) = num_runs
        /\ \A k \in 1..num_runs :
              /\ delivered["returns"][k] = SumInt(ret_lists[k])
              /\ delivered["mean_returns"][k].den # 0
              /\ delivered["mean_returns"][k].num * Len(ret_lists[k])
                    = SumInt(ret_lists[k]) * delivered["mean_returns"][k].den

C6_Witness ==
    /\ pc = "returned" /\ num_runs = 2 /\ num_steps = 2
    /\ Len(delivered["returns"]) = 2
    /\ Len(ret_lists[1]) = 2
    /\ Len(ret_lists[2]) = 1

\* ---------------------------------------------------------------------- C7
\* C7: when a step raises after at least one run was completed, run() still
\* delivers metrics, and they hold the returns of the completed runs.
C7_StepErrorKeepsMetrics ==
    (pc = "raised" /\ error = "EnvError" /\ calls[Len(calls)] = "step"
        /\ Len(rets) >= 1) =>
        /\ "returns" \in DOMAIN delivered
        /\ \A k \in 1..Len(rets) : delivered["returns"][k] = rets[k]

\* ---------------------------------------------------------------------- C8
\* C8: when the conversion fails after all runs, terminate() has been called
\* once and the metrics gathered by run() are delivered to the caller.
C8_ConversionErrorKeepsMetrics ==
    (pc = "raised" /\ error = "ConversionError") =>
        /\ Count(calls, "terminate") = 1
        /\ delivered = info_dict

\* ---------------------------------------------------------------------- C9
\* the entries of tp are the ratios outflow_k / inflow_k
IsRatios(tp) ==
    \A k \in 1..Len(tp) :
        /\ tp[k].den # 0
        /\ tp[k].num * inflows[k] = outflows[k] * tp[k].den

IsAllZero(tp) == \A k \in 1..Len(tp) : tp[k] = [num |-> 0, den |-> 1]

\* C9 as stated: once a run has ended, throughput has one entry per run so
\* far; if the inflow of every run so far is strictly positive, entry k is
\* outflow_k / inflow_k, otherwise every entry is 0.
C9_StrictlyPositive ==
    (throughput.bound /\ Len(outflows) = Len(inflows)) =>
        /\ Len(throughput.value) = Len(inflows)
        /\ IF \A k \in 1..Len(inflows) : inflows[k] > 0
           THEN IsRatios(throughput.value)
           ELSE IsAllZero(throughput.value)

\* C9 (amended): once a run has ended, throughput has one entry per run so
\* far; if the inflow of every run so far is above 1e-5, entry k is
\* outflow_k / inflow_k, otherwise every entry is 0, also the entries of the
\* runs whose own inflow was above 1e-5; after the last run it has num_runs
\* entries; no division by a zero inflow ever occurs.
C9_Throughput ==
    /\ error # "ZeroDivisionError"
    /\ (throughput.bound /\ Len(outflows) = Len(inflows)) =>
          /\ Len(throughput.value) = Len(inflows)
          /\ IF \A k \in 1..Len(inflows) : inflows[k] > Eps
             THEN IsRatios(throughput.value)
             ELSE IsAllZero(throughput.value)
    /\ (pc \in {"aggregate", "terminate", "convert", "remove", "return", "returned"}
          /\ num_runs >= 1)
          => (throughput.bound /\ Len(throughput.value) = num_runs)

\* the ratios case: both inflows above the guard
C9_WitnessRatios ==
    /\ pc = "returned" /\ num_runs = 2
    /\ inflows[1] > Eps /\ inflows[2] > Eps
    /\ throughput.value = <<[num |-> 1, den |-> 2], [num |-> 1, den |-> 2]>>

\* the all-or-nothing case: run 1 had an inflow above the guard, run 2 had
\* none, and both entries are 0
C9_Witness ==
    /\ pc = "returned" /\ num_runs = 2
    /\ inflows[1] > Eps /\ outflows[1] > 0 /\ inflows[2] = 0
    /\ throughput.value = <<[num |-> 0, den |-> 1], [num |-> 0, den |-> 1]>>

\* --------------------------------------------------------------------- C10
\* C10: when a step completed with no vehicle present and the queries of
\* line 130 return, the sample stored for the step is nan (numpy's no-data
\* value) or 0, the driver does not fail, and it goes on to the next step of
\* the run (or leaves the run when the step reported done).
C10_EmptySample ==
    (pc = "sample" /\ kernel_speeds = <<>>) =>
        /\ error' # "ZeroDivisionError"
        /\ (pc' = "raised" => error' = "EnvError")
        /\ (pc' # "raised" =>
              /\ vel'[j + 1] \in {[num |-> 0, den |-> 0], [num |-> 0, den |-> 1]}
              /\ ret_list' = Append(ret_list, reward)
              /\ pc' = (IF done THEN "run_end" ELSE "for_j"))

C10_NoVehicles == [][C10_EmptySample]_vars

C10_Witness ==
    /\ pc = "sample" /\ j = 1
    /\ vel[1] = [num |-> 0, den |-> 0]
    /\ ret_list = <<2>>
    /\ kernel_speeds = <<2, 4>>

\* --------------------------------------------------------------------- C11
\* C11: when run() returns with convert_to_csv set and an emission_path, the
\* XML file no longer exists and the converted file exists, the last two
\* calls being the conversion and the removal; the XML file is removed only
\* after a conversion that succeeded, and a conversion that failed is
\* followed by no removal.
C11_EmissionLifecycle ==
    /\ (pc = "returned" /\ convert_to_csv /\ emission_path # None) =>
          /\ ~xml_exists
          /\ csv_exists
          /\ Len(calls) >= 3
          /\ SubSeq(calls, Len(calls) - 2, Len(calls))
                = <<"terminate", "emission_to_csv", "remove">>
    /\ \A k \in Positions(calls, "remove") :
          k > 1 /\ calls[k - 1] = "emission_to_csv" /\ csv_exists
    /\ (pc = "raised" /\ error = "ConversionError") =>
          /\ Count(calls, "remove") = 0
          /\ ~csv_exists

C11_Witness ==
    /\ pc = "returned" /\ convert_to_csv /\ emission_path = "data"
    /\ csv_exists /\ ~xml_exists
    /\ num_runs = 2 /\ Count(calls, "step") = 3

\* --------------------------------------------------------------------- C13
\* C13: velocities[k] has one entry per executed step of run k: num_steps
\* entries for a run that ran to completion, fewer for a run that ended
\* early through done.
C13_OneSpeedPerStep ==
    pc = "returned" =>
        \A k \in 1..Len(delivered["velocities"]) :
            Len(delivered["velocities"][k]) = Len(delivered["per_step_returns"][k])

\* --------------------------------------------------------------------- C14
\* the run (1, 2, ...) the call at position p of s belongs to
RunOf(s, p) == Count(SubSeq(s, 1, p), "reset")

\* the number of steps issued in run k
StepsInRun(s, k) ==
    Cardinality({p \in 1..Len(s) : s[p] = "step" /\ RunOf(s, p) = k})

C14_Accounts ==
    /\ Len(rets) = Len(ret_lists)
    /\ \A k \in 1..Len(ret_lists) :
          /\ rets[k] = SumInt(ret_lists[k])
          /\ Len(ret_lists[k]) = StepsInRun(calls, k)
          /\ Len(ret_lists[k]) <= num_steps
    /\ pc \in {"for_j", "sample", "run_end"} => ret = SumInt(ret_list)
    /\ pc = "returned" =>
          /\ delivered["per_step_returns"] = ret_lists
          /\ delivered["returns"] = rets

C14_Moves ==
    /\ (Issues("reset") /\ pc' # "raised") => (ret' = 0 /\ ret_list' = <<>>)
    /\ (pc = "sample" /\ pc' # "raised") =>
          /\ ret_list' = Append(ret_list, reward)
          /\ ret' = ret + reward
    /\ pc = "run_end" =>
          /\ ret_lists' = Append(ret_lists, ret_list)
          /\ rets' = Append(rets, ret)
    /\ pc # "run_end" => (ret_lists' = ret_lists /\ rets' = rets)

\* C14: per_step_returns[k] is the sequence of the rewards env.step returned
\* in run k, in order and with the reward of the step that reported done; its
\* length is the number of steps of the run, at most num_steps; returns[k]
\* is its sum; every run starts from ret = 0 and an empty list.
C14_PerStepReturns == []C14_Accounts /\ [][C14_Moves]_vars

C14_Witness ==
    /\ pc = "returned" /\ num_runs = 2 /\ num_steps = 2
    /\ delivered["per_step_returns"] = <<<<1, -1>>, <<2, 1>>>>
    /\ delivered["returns"] = <<0, 3>>

\* --------------------------------------------------------------------- C15
\* the position in s of the latest reset or step before position p
LastSource(s, p) ==
    CHOOSE q \in 0..(p - 1) :
        /\ q > 0 => s[q] \in {"reset", "step"}
        /\ \A r \in (q + 1)..(p - 1) : s[r] \notin {"reset", "step"}

\* C15: the action of every step is computed from the state the latest reset
\* or step before it returned, which belongs to the same run; every step
\* that returned is followed at once by one speed sample (get_ids, then
\* get_speed), so that outside a sample the samples number the steps.
C15_StepOrdering ==
    /\ \A p \in 1..Len(calls) :
          /\ (calls[p] = "step" /\ p < Len(calls)) => calls[p + 1] = "get_ids"
          /\ (calls[p] = "get_ids" /\ p < Len(calls)) => calls[p + 1] = "get_speed"
          /\ calls[p] = "get_ids" => (p > 1 /\ calls[p - 1] = "step")
          /\ calls[p] = "get_speed" => (p > 2 /\ calls[p - 1] = "get_ids")
    /\ pc \notin {"sample", "raised"} =>
          Count(calls, "get_speed") = Count(calls, "step")
    /\ pc = "sample" =>
          /\ calls[Len(calls)] = "step"
          /\ action_state = LastSource(calls, Len(calls))
          /\ action_state > 0
          /\ RunOf(calls, action_state) = RunOf(calls, Len(calls))
          /\ state = Len(calls)

C15_Witness ==
    /\ pc = "sample" /\ j = 1 /\ i = 1
    /\ calls[action_state] = "step"
    /\ Count(calls, "get_speed") = Count(calls, "step") - 1

\* --------------------------------------------------------------------- C16
\* C16: with convert_to_csv false, run() issues no conversion and no removal
\* and creates no converted file, with or without an emission_path, and has
\* called terminate() once when it returns.
C16_NoConversion ==
    ~convert_to_csv =>
        /\ \A k \in 1..Len(calls) : calls[k] \notin FileOps
        /\ ~csv_exists
        /\ pc \notin {"convert", "remove"}
        /\ error \notin {"ConversionError", "FileNotFoundError"}
        /\ pc \in {"return", "returned"} => Count(calls, "terminate") = 1

C16_Witness ==
    /\ pc = "returned" /\ ~convert_to_csv /\ emission_path = "data"
    /\ xml_exists
    /\ Count(calls, "step") = 4

\* --------------------------------------------------------------------- C19
\* C19: with num_runs = 0 (and a configuration that passes line 91) run()
\* issues no call at all, fails in the aggregate stage on a name no run has
\* bound, never reaches terminate() and delivers nothing.
C19_ZeroRuns ==
    num_runs = 0 =>
        /\ calls = <<>>
        /\ delivered = EmptyDict
        /\ pc \in {"start", "for_i", "aggregate", "raised"}
        /\ pc = "raised" =>
              error = (IF convert_to_csv /\ emission_path = None
                       THEN "ValueError" ELSE "UnboundLocalError")

C19_Witness ==
    /\ pc = "raised" /\ error = "UnboundLocalError"
    /\ num_runs = 0 /\ num_steps = MaxSteps
    /\ "avg_spd" \in DOMAIN info_dict

\* --------------------------------------------------------------------- C12
\* C12: no env ever has more than one step in flight, and no reset, step,
\* vehicle query or terminate is issued on an env while a step on it has not
\* returned, in every interleaving of the Experiments.
C12_OneInFlight ==
    /\ \A h \in DOMAIN in_flight : in_flight[h] <= 1
    /\ ~overlap
    /\ \A e \in DOMAIN exps :
          in_flight[EnvOf(e)] > 0 => exps[e].pc = "in_step"

C12_Witness ==
    /\ exps[1].pc = "in_step" /\ exps[2].pc = "in_step"
    /\ exps[1].i = 1 /\ exps[2].j = 1
    /\ in_flight = [h \in Envs |-> 1]

\* --------------------------------------------------------------------- C17
\* how often x occurs in the sequence q
Occurrences(q, x) == Cardinality({n \in 1..Len(q) : q[n] = x})

\* C17: when the import is done, every route of the file is in
\* routes_data[k], k its first edge, and routes_data[k] holds each of the
\* distinct routes that start at k exactly once.
C17_EachRouteOnce ==
    rpc = "done" =>
        /\ \A a \in 1..Len(file) : \A b \in 1..Len(file[a]) :
              LET e == Split(file[a][b])
              IN /\ e[1] \in DOMAIN routes_data
                 /\ Occurrences(routes_data[e[1]], e) = 1
        /\ \A k \in DOMAIN routes_data :
              \A n \in 1..Len(routes_data[k]) : routes_data[k][n][1] = k

\* --------------------------------------------------------------------- C18
\* the entries still to visit that differ from the route being added, plus
\* the entries still to visit
ScanMeasure ==
    Cardinality({n \in (idx + 1)..Len(routes_data[key]) :
                    routes_data[key][n] # route_edges})
    + (Len(routes_data[key]) - idx)

C18_ScanShrinks ==
    (rpc = "scan" /\ rpc' = "scan") => (ScanMeasure' < ScanMeasure)

\* C18: the import reaches its return for every file; within a scan of an
\* existing key's list every iteration lowers a measure that cannot go below
\* 0, although the list grows while it is iterated.
C18_Terminates == [][C18_ScanShrinks]_vars /\ <>(rpc = "done")

C18_Witness ==
    /\ rpc = "done"
    /\ Len(file) = MaxVehicles
    /\ <<"a">> \in DOMAIN routes_data
    /\ Len(routes_data[<<"a">>]) = 4

====
